---- MODULE Spec2Model ----
(***************************************************************************)
(* Verification model of the acgengine core: the Managed GPU-object        *)
(* lifecycle registry (engine_managed.cpp and the wrappers deriving from   *)
(* it), the Node hierarchy (engine_node.cpp), the List render-list         *)
(* construction (engine_list.cpp), the default pipeline, the Object        *)
(* identity base (engine_object.cpp), the Fbo attachments (engine_fbo.cpp) *)
(* and the Container registry (engine_container.cpp).                      *)
(*                                                                         *)
(* Each subsystem has its own specification (SpecManaged, SpecNode,        *)
(* SpecList, SpecRender, SpecPipeline, SpecObject, SpecFbo, SpecTree,      *)
(* SpecContainer, SpecLoad); the variables of the other subsystems keep    *)
(* their initial values.                                                   *)
(***************************************************************************)
EXTENDS Integers, Sequences, FiniteSets, TLC

\* ------------------------------------------------------------------------
\* Bounds
\* ------------------------------------------------------------------------

\* number of storage locations in which Managed objects can be constructed
NSlots == 2

\* number of nodes besides the sentinel Node::empty
NNodes == 3

\* longest children sequence the model lets addChild build
MaxChildren == 2

\* longest render list the model lets process build
MaxElems == 4

\* number of addChild/removeChild calls made on the sentinel Node::empty itself
MaxSentinelCalls == 2

\* number of storage locations in which plain Objects can be constructed
NStorages == 3

\* number of Object::Reserved blocks the model lets a run allocate
MaxBlocks == 4

\* longest attachment vector the model lets the attach calls build
MaxAttachments == 3

\* number of render buffer names the model lets glGenRenderbuffers hand out
MaxRenderbuffers == 3

\* number of materials and textures an application holds besides its nodes
NExtras == 2

\* ------------------------------------------------------------------------
\* State
\* ------------------------------------------------------------------------

VARIABLES
    \* ---- Managed ----
    alive,            \* alive[s]: storage s holds a constructed object (moved-from shells included)
    kind,             \* kind[s]: class of the object in s
    reserved,         \* reserved[s]: Managed::reserved of the object in s (Null or a Reserved block)
    initialized,      \* initialized[r]: Managed::Reserved::initialized of block r
    wrapperReserved,  \* wrapperReserved[s]: the derived class' own reserved pointer is non-null
    allManaged,       \* the global std::list of references to Managed objects
    crashed,          \* the process has died (null dereference, dangling iterator, stack
                      \* overflow) or hangs in a loop: the running call never returns
    mLast,            \* the last Managed operation and its result
    \* ---- Node ----
    nodeType,         \* nodeType[n]: dynamic type of node n ("Node", "Light" or "Mesh")
    parent,           \* parent[n]: Node::Reserved::parent
    children,         \* children[n]: Node::Reserved::children
    nLast,            \* the last Node operation and its result (none once a List operation ran)
    sentinelCalls,    \* number of addChild/removeChild calls whose receiver was Node::empty
    \* ---- List ----
    renderableElem,   \* List::Reserved::renderableElem
    nrOfLights,       \* List::Reserved::nrOfLights
    lLast,            \* the last List operation and its result (none once the hierarchy changed)
    \* ---- Pipeline ----
    dirty,            \* dirty[s]: Object::Reserved::dirty of the pipeline in storage s
    pLast,            \* the last PipelineDefault::render call and its result
    \* ---- Object ----
    objAlive,         \* objAlive[s]: storage s holds a constructed Object (moved-from shells included)
    objReserved,      \* objReserved[s]: Object::reserved of the object in s (ObjNull or a block)
    objBlocks,        \* every Object::Reserved block ever allocated, in allocation order
    counter,          \* the static int32_t counter of engine_object.cpp
    idCounter,        \* the static uint32_t idCounter of engine_object.cpp
    oLast,            \* the last Object operation
    \* ---- Fbo ----
    attachment,       \* attachment[s]: Fbo::Reserved::attachment of the Fbo in storage s
    renderbuffers,    \* number of names glGenRenderbuffers has handed out
    fLast,            \* the last Fbo::free call: what its loop visited and released
    \* ---- Node::getTreeAsString ----
    treeOutput,       \* the function's static std::string output
    treeCalls,        \* the function's static unsigned int calls
    tLast,            \* the last getTreeAsString call and its result
    \* ---- Container ----
    allMaterials,     \* Container::Reserved::allMaterials
    allTextures,      \* Container::Reserved::allTextures
    allMeshes,        \* Container::Reserved::allMeshes
    allLights,        \* Container::Reserved::allLights
    allNodes,         \* Container::Reserved::allNodes
    cName,            \* cName[o]: Object::Reserved::name of object o
    cShell,           \* the objects whose original storage has been moved from
    cLast             \* the last Container operation and its result

mvars == <<alive, kind, reserved, initialized, wrapperReserved, allManaged, mLast>>

nvars == <<nodeType, parent, children, nLast, sentinelCalls>>

lvars == <<renderableElem, nrOfLights, lLast>>

pvars == <<dirty, pLast>>

ovars == <<objAlive, objReserved, objBlocks, counter, idCounter, oLast>>

fvars == <<attachment, renderbuffers, fLast>>

tvars == <<treeOutput, treeCalls, tLast>>

cvars == <<allMaterials, allTextures, allMeshes, allLights, allNodes, cName, cShell, cLast>>

\* the variables of the subsystems that the Managed, Node, List and Pipeline
\* operations never touch
xvars == <<ovars, fvars, tvars, cvars>>

vars == <<alive, kind, reserved, initialized, wrapperReserved, allManaged, crashed, mLast,
          nodeType, parent, children, nLast, sentinelCalls, renderableElem, nrOfLights, lLast,
          dirty, pLast, objAlive, objReserved, objBlocks, counter, idCounter, oLast,
          attachment, renderbuffers, fLast, treeOutput, treeCalls, tLast,
          allMaterials, allTextures, allMeshes, allLights, allNodes, cName, cShell, cLast>>

\* ------------------------------------------------------------------------
\* Generic helpers
\* ------------------------------------------------------------------------

RemoveAt(seq, i) == SubSeq(seq, 1, i - 1) \o SubSeq(seq, i + 1, Len(seq))

Range(seq) == { seq[i] : i \in DOMAIN seq }

Count(seq, x) == Cardinality({ i \in DOMAIN seq : seq[i] = x })

Min(S) == CHOOSE x \in S : \A y \in S : x <= y

Reverse(seq) == [i \in 1 .. Len(seq) |-> seq[Len(seq) - i + 1]]

\* ------------------------------------------------------------------------
\* Managed: engine_managed.cpp, engine_fbo.cpp, engine_vbo.cpp
\* ------------------------------------------------------------------------

Slots == 1 .. NSlots

\* Reserved blocks (one per constructed Managed base at most)
Blocks == 1 .. NSlots

Null == 0

\* "Managed": the base class itself.
\* "Fbo":     wrappers whose move constructor forwards to Managed(Managed &&)
\*            (Fbo, Texture).
\* "Vbo":     wrappers whose move constructor does not name the Managed base,
\*            which is therefore default-constructed (Vbo, Ebo, Vao, Ssbo,
\*            Shader, Program, Pipeline and the pipelines).
Kinds == {"Managed", "Fbo", "Vbo"}

NoOp == [op |-> "none", self |-> 0, other |-> 0, ret |-> TRUE, wasInit |-> FALSE,
         total |-> 0, inits |-> 0, freed |-> <<>>]

\* Managed::isInitialized (only called on objects whose reserved is non-null)
isInitialized(res, ini, s) == ini[res[s]]

\* A block that no constructed object owns (result of std::make_unique)
FreshBlock(res, al) == Min(Blocks \ { res[s] : s \in { t \in Slots : al[t] } })

\* the loops "for (it = begin; it != end; ++it) if (it->get().reserved == p)":
\* position of the first entry whose referent's reserved equals p, 0 if none
FirstMatch(reg, res, p) ==
    LET hits == { i \in DOMAIN reg : res[reg[i]] = p }
    IN  IF hits = {} THEN 0 ELSE Min(hits)

\* Managed::Managed()  and the constructors of the wrappers
Construct(s, k) ==
    /\ ~crashed
    /\ UNCHANGED <<nvars, lvars, pvars, xvars>>
    /\ ~alive[s]
    /\ LET r == FreshBlock(reserved, alive)
       IN  /\ reserved' = [reserved EXCEPT ![s] = r]
           /\ initialized' = [initialized EXCEPT ![r] = FALSE]
    /\ alive' = [alive EXCEPT ![s] = TRUE]
    /\ kind' = [kind EXCEPT ![s] = k]
    /\ wrapperReserved' = [wrapperReserved EXCEPT ![s] = (k # "Managed")]
    /\ mLast' = [NoOp EXCEPT !.op = "construct", !.self = s]
    /\ UNCHANGED <<allManaged, crashed>>

\* Managed::Managed(Managed &&other): reserved(std::move(other.reserved)), then
\* the registry entry whose referent's reserved equals other.reserved (null by
\* now) is rebound to *this.
ManagedMove(reg, res, a, b) ==
    LET res2 == [res EXCEPT ![b] = res[a], ![a] = Null]
        i    == FirstMatch(reg, res2, res2[a])
    IN  [res |-> res2,
         reg |-> IF i = 0 THEN reg ELSE [reg EXCEPT ![i] = b]]

\* Move construction of the object in a into the new storage b.
MoveConstruct(a, b) ==
    /\ ~crashed
    /\ UNCHANGED <<nvars, lvars, pvars, xvars>>
    /\ alive[a]
    /\ ~alive[b]
    /\ alive' = [alive EXCEPT ![b] = TRUE]
    /\ kind' = [kind EXCEPT ![b] = kind[a]]
    /\ IF kind[a] \in {"Managed", "Fbo"}
       THEN \* Fbo(Fbo &&other) : Object(move), Managed(move), reserved(move)
            LET m == ManagedMove(allManaged, reserved, a, b)
            IN  /\ reserved' = m.res
                /\ allManaged' = m.reg
                /\ initialized' = initialized
       ELSE \* Vbo(Vbo &&other) : Object(move), reserved(move)  -- Managed()
            LET r == FreshBlock(reserved, alive)
            IN  /\ reserved' = [reserved EXCEPT ![b] = r]
                /\ initialized' = [initialized EXCEPT ![r] = FALSE]
                /\ allManaged' = allManaged
    /\ wrapperReserved' = [wrapperReserved EXCEPT ![b] = wrapperReserved[a], ![a] = FALSE]
    /\ mLast' = [NoOp EXCEPT !.op = "move", !.self = b, !.other = a,
                             !.wasInit = (reserved[a] # Null /\ initialized[reserved[a]])]
    /\ UNCHANGED crashed

\* Managed::init without its "already initialized" safety net
ManagedInitUnguarded(reg, res, ini, s) ==
    [reg |-> Append(reg, s), ini |-> [ini EXCEPT ![res[s]] = TRUE], ret |-> TRUE]

\* Managed::init
ManagedInit(reg, res, ini, s) ==
    IF res[s] # Null /\ ini[res[s]]
    THEN [reg |-> reg, ini |-> ini, ret |-> FALSE]
    ELSE [reg |-> Append(reg, s), ini |-> [ini EXCEPT ![res[s]] = TRUE], ret |-> TRUE]

\* init() of any class: the wrappers return false when Managed::init() does and
\* true after creating their GL object.  init() is not called on a moved-from
\* object (it would write through a null reserved pointer).
Init_(s) ==
    /\ ~crashed
    /\ UNCHANGED <<nvars, lvars, pvars, xvars>>
    /\ alive[s]
    /\ reserved[s] # Null
    /\ kind[s] # "Managed" => wrapperReserved[s]
    /\ LET r == ManagedInit(allManaged, reserved, initialized, s)
       IN  /\ allManaged' = r.reg
           /\ initialized' = r.ini
           /\ mLast' = [NoOp EXCEPT !.op = "init", !.self = s, !.ret = r.ret,
                                    !.wasInit = initialized[reserved[s]]]
    /\ UNCHANGED <<alive, kind, reserved, wrapperReserved, crashed>>

\* Managed::free; erased is the position of the registry entry it erased
ManagedFree(reg, res, ini, s) ==
    IF res[s] = Null
    THEN [reg |-> reg, ini |-> ini, ret |-> TRUE, erased |-> 0]
    ELSE IF ~ini[res[s]]
    THEN [reg |-> reg, ini |-> ini, ret |-> TRUE, erased |-> 0]
    ELSE LET i == FirstMatch(reg, res, res[s])
         IN  [reg |-> IF i = 0 THEN reg ELSE RemoveAt(reg, i),
              ini |-> [ini EXCEPT ![res[s]] = FALSE],
              ret |-> TRUE,
              erased |-> i]

\* the virtual free(): Managed::free for the base class; Fbo::free / Vbo::free
\* call Managed::free first and then read their own reserved pointer
\* (getNrOfAttachments(), reserved->oglId), which is null in a moved-from object.
VirtualFree(reg, res, ini, wres, kd, s) ==
    LET m == ManagedFree(reg, res, ini, s)
    IN  [reg |-> m.reg, ini |-> m.ini, ret |-> m.ret, erased |-> m.erased,
         crash |-> (kd[s] # "Managed" /\ ~wres[s])]

Free_(s) ==
    /\ ~crashed
    /\ UNCHANGED <<nvars, lvars, pvars, xvars>>
    /\ alive[s]
    /\ LET r == VirtualFree(allManaged, reserved, initialized, wrapperReserved, kind, s)
       IN  /\ allManaged' = r.reg
           /\ initialized' = r.ini
           /\ crashed' = r.crash
           /\ mLast' = [NoOp EXCEPT !.op = IF r.crash THEN "crash" ELSE "free",
                                    !.self = s, !.ret = r.ret,
                                    !.wasInit = (reserved[s] # Null /\ initialized[reserved[s]])]
    /\ UNCHANGED <<alive, kind, reserved, wrapperReserved>>

\* a destructor that leaves the registry alone
ManagedDtorKeepsEntry(reg, res, s) == reg

\* Managed::~Managed: erases the registry entry whose referent's reserved
\* equals this->reserved
ManagedDtor(reg, res, s) ==
    LET i == FirstMatch(reg, res, res[s])
    IN  IF i = 0 THEN reg ELSE RemoveAt(reg, i)

\* Destruction of the object in s: ~Fbo / ~Vbo call free() when their own
\* reserved is non-null, then ~Managed runs and the Reserved block is released.
Destroy(s) ==
    /\ ~crashed
    /\ UNCHANGED <<nvars, lvars, pvars, xvars>>
    /\ alive[s]
    /\ LET f == IF kind[s] # "Managed" /\ wrapperReserved[s]
                THEN VirtualFree(allManaged, reserved, initialized, wrapperReserved, kind, s)
                ELSE [reg |-> allManaged, ini |-> initialized]
       IN  /\ allManaged' = ManagedDtor(f.reg, reserved, s)
           /\ initialized' = IF reserved[s] = Null THEN f.ini
                             ELSE [f.ini EXCEPT ![reserved[s]] = FALSE]
    /\ alive' = [alive EXCEPT ![s] = FALSE]
    /\ kind' = [kind EXCEPT ![s] = "none"]
    /\ reserved' = [reserved EXCEPT ![s] = Null]
    /\ wrapperReserved' = [wrapperReserved EXCEPT ![s] = FALSE]
    /\ mLast' = [NoOp EXCEPT !.op = "destroy", !.self = s,
                             !.wasInit = (reserved[s] # Null /\ initialized[reserved[s]])]
    /\ UNCHANGED crashed

\* a cursor that is advanced as if nothing had been erased
CursorAfterEraseStale(pos, erased) == IF erased = pos THEN 0 ELSE pos

\* Position of the cursor "it" (which pointed at position pos) after the entry
\* at position erased has been erased from the std::list; 0 when the cursor's
\* own entry was erased (dangling iterator).
CursorAfterErase(pos, erased) ==
    IF erased = 0 THEN pos
    ELSE IF erased = pos THEN 0
    ELSE IF erased < pos THEN pos - 1
    ELSE pos

\* The while loop of Managed::forceRelease with the cursor at position i.
\* freed is the sequence of objects whose free() was called.
RECURSIVE ForceReleaseLoop(_, _, _, _)
ForceReleaseLoop(reg, ini, i, freed) ==
    IF i > Len(reg)
    THEN [reg |-> reg, ini |-> ini, crash |-> FALSE, freed |-> freed]
    ELSE LET s == reg[i]
         IN  IF reserved[s] = Null
             THEN [reg |-> reg, ini |-> ini, crash |-> TRUE, freed |-> freed]
             ELSE IF isInitialized(reserved, ini, s)
             THEN LET f  == VirtualFree(reg, reserved, ini, wrapperReserved, kind, s)
                      it == CursorAfterErase(i + 1, f.erased)
                  IN  IF f.crash \/ it = 0
                      THEN [reg |-> f.reg, ini |-> f.ini, crash |-> TRUE,
                            freed |-> Append(freed, s)]
                      ELSE ForceReleaseLoop(f.reg, f.ini, it, Append(freed, s))
             ELSE ForceReleaseLoop(reg, ini, i + 1, freed)

\* Managed::forceRelease (called by Base::free)
ForceRelease ==
    /\ ~crashed
    /\ UNCHANGED <<nvars, lvars, pvars, xvars>>
    /\ LET r == ForceReleaseLoop(allManaged, initialized, 1, <<>>)
       IN  /\ allManaged' = r.reg
           /\ initialized' = r.ini
           /\ crashed' = r.crash
           /\ mLast' = [NoOp EXCEPT !.op = IF r.crash THEN "crash" ELSE "forceRelease",
                                    !.total = Len(allManaged),
                                    !.inits = Len(r.freed),
                                    !.freed = r.freed]
    /\ UNCHANGED <<alive, kind, reserved, wrapperReserved>>

\* the counters of Managed::dumpReport
DumpTotal(reg) == Len(reg)

DumpInitialized(reg, res, ini) ==
    Cardinality({ i \in DOMAIN reg : isInitialized(res, ini, reg[i]) })

\* Managed::dumpReport
DumpReport ==
    /\ ~crashed
    /\ UNCHANGED <<nvars, lvars, pvars, xvars>>
    /\ \A i \in DOMAIN allManaged : reserved[allManaged[i]] # Null
    /\ mLast' = [NoOp EXCEPT !.op = "dumpReport",
                             !.total = DumpTotal(allManaged),
                             !.inits = DumpInitialized(allManaged, reserved, initialized)]
    /\ UNCHANGED <<alive, kind, reserved, initialized, wrapperReserved, allManaged, crashed>>

\* ------------------------------------------------------------------------
\* Matrices.  A matrix is a word over the local matrices of the nodes, each
\* possibly transposed; the product is concatenation (associative, not
\* commutative) and transposition reverses the word.
\* ------------------------------------------------------------------------

\* glm::mat4(1.0f)
Identity == <<>>

\* a product with its operands exchanged
MulSwapped(a, b) == b \o a

\* operator* of glm::mat4
Mul(a, b) == a \o b

\* a transposition that forgets that (A * B)^T = B^T * A^T
TransposeKeepsOrder(w) == [i \in 1 .. Len(w) |-> [g |-> w[i].g, t |-> ~w[i].t]]

\* glm::transpose
Transpose(w) ==
    [i \in 1 .. Len(w) |-> [g |-> w[Len(w) - i + 1].g, t |-> ~w[Len(w) - i + 1].t]]

\* Node::getMatrix: node n carries its own local matrix
getMatrix(n) == <<[g |-> n, t |-> FALSE]>>

\* a prevMatrix argument of List::process other than the default glm::mat4(1.0f)
PrevMatrix == <<[g |-> NNodes + 1, t |-> FALSE]>>

\* the cameraMatrix argument of List::render
CameraMatrix == <<[g |-> NNodes + 2, t |-> FALSE]>>

\* ------------------------------------------------------------------------
\* Node: engine_node.cpp
\* ------------------------------------------------------------------------

\* Node::empty
empty == 0

Nodes == 0 .. NNodes

RealNodes == 1 .. NNodes

NodeTypes == {"Node", "Light", "Mesh"}

NoNodeOp == [op |-> "none", ret |-> TRUE, node |-> 0, mat |-> Identity,
             visits |-> 0, done |-> TRUE]

NoListOp == [op |-> "none", root |-> 0, ret |-> TRUE, visited |-> <<>>,
             preLen |-> 0, preLights |-> 0, done |-> TRUE, calls |-> <<>>]

NoRender == [op |-> "none", self |-> 0, ret |-> TRUE, wasDirty |-> FALSE,
             initCalls |-> 0, initRet |-> TRUE, drew |-> FALSE]

\* Node::addChild
AddChild(a, child) ==
    /\ ~crashed
    /\ Len(children[a]) < MaxChildren
    /\ a = empty => sentinelCalls < MaxSentinelCalls
    /\ sentinelCalls' = IF a = empty THEN sentinelCalls + 1 ELSE sentinelCalls
    /\ IF child = empty
       THEN /\ nLast' = [NoNodeOp EXCEPT !.op = "addChild", !.ret = FALSE]
            /\ UNCHANGED <<parent, children>>
       ELSE IF parent[child] # empty
       THEN /\ nLast' = [NoNodeOp EXCEPT !.op = "addChild", !.ret = FALSE]
            /\ UNCHANGED <<parent, children>>
       ELSE /\ children' = [children EXCEPT ![a] = Append(@, child)]
            /\ parent' = [parent EXCEPT ![child] = a]
            /\ nLast' = [NoNodeOp EXCEPT !.op = "addChild", !.ret = TRUE]
    /\ lLast' = NoListOp
    /\ UNCHANGED <<mvars, pvars, xvars, crashed, nodeType, renderableElem, nrOfLights>>

\* a getChild whose safety net lets the index one past the end through and
\* hands out the last child
GetChildOffByOne(a, id) ==
    /\ ~crashed
    /\ nLast' = [NoNodeOp EXCEPT !.op = "getChild",
                                 !.node = IF id > Len(children[a]) \/ children[a] = <<>>
                                          THEN empty
                                          ELSE IF id = Len(children[a])
                                          THEN children[a][id]
                                          ELSE children[a][id + 1]]
    /\ lLast' = NoListOp
    /\ UNCHANGED <<mvars, pvars, xvars, crashed, nodeType, parent, children, sentinelCalls,
                   renderableElem, nrOfLights>>

\* Node::getChild (id counts from 0)
GetChild(a, id) ==
    /\ ~crashed
    /\ nLast' = [NoNodeOp EXCEPT !.op = "getChild",
                                 !.node = IF id >= Len(children[a])
                                          THEN empty
                                          ELSE children[a][id + 1]]
    /\ lLast' = NoListOp
    /\ UNCHANGED <<mvars, pvars, xvars, crashed, nodeType, parent, children, sentinelCalls,
                   renderableElem, nrOfLights>>

\* a removeChild that erases the entry and forgets the child's back-reference
RemoveChildKeepsParent(a, id) ==
    /\ ~crashed
    /\ a = empty => sentinelCalls < MaxSentinelCalls
    /\ sentinelCalls' = IF a = empty THEN sentinelCalls + 1 ELSE sentinelCalls
    /\ IF id >= Len(children[a])
       THEN /\ nLast' = [NoNodeOp EXCEPT !.op = "removeChild", !.node = empty]
            /\ UNCHANGED <<parent, children>>
       ELSE LET x == children[a][id + 1]
            IN  /\ parent' = parent
                /\ children' = [children EXCEPT ![a] = RemoveAt(@, id + 1)]
                /\ nLast' = [NoNodeOp EXCEPT !.op = "removeChild", !.node = x]
    /\ lLast' = NoListOp
    /\ UNCHANGED <<mvars, pvars, xvars, crashed, nodeType, renderableElem, nrOfLights>>

\* Node::removeChild (id counts from 0)
RemoveChild(a, id) ==
    /\ ~crashed
    /\ a = empty => sentinelCalls < MaxSentinelCalls
    /\ sentinelCalls' = IF a = empty THEN sentinelCalls + 1 ELSE sentinelCalls
    /\ IF id >= Len(children[a])
       THEN /\ nLast' = [NoNodeOp EXCEPT !.op = "removeChild", !.node = empty]
            /\ UNCHANGED <<parent, children>>
       ELSE LET x == children[a][id + 1]
            IN  /\ parent' = [parent EXCEPT ![x] = empty]
                /\ children' = [children EXCEPT ![a] = RemoveAt(@, id + 1)]
                /\ nLast' = [NoNodeOp EXCEPT !.op = "removeChild", !.node = x]
    /\ lLast' = NoListOp
    /\ UNCHANGED <<mvars, pvars, xvars, crashed, nodeType, renderableElem, nrOfLights>>

\* The do-while loop of Node::getWorldMatrix.  The loop's state is the node
\* current alone, so it runs forever as soon as it goes on after having
\* visited every node once: done is FALSE then.
RECURSIVE GetWorldMatrixLoop(_, _, _, _)
GetWorldMatrixLoop(current, root, result, visits) ==
    LET r    == Mul(result, Transpose(getMatrix(current)))
        next == parent[current]
    IN  IF next # empty /\ next # root
        THEN IF visits + 1 >= NNodes
             THEN [done |-> FALSE, mat |-> Identity, visits |-> visits + 1]
             ELSE GetWorldMatrixLoop(next, root, r, visits + 1)
        ELSE [done |-> TRUE, mat |-> Transpose(r), visits |-> visits + 1]

\* Node::getWorldMatrix
GetWorldMatrix(n, root) ==
    /\ ~crashed
    /\ LET r == GetWorldMatrixLoop(n, root, Identity, 0)
       IN  /\ nLast' = [NoNodeOp EXCEPT !.op = "getWorldMatrix", !.mat = r.mat, !.visits = r.visits, !.done = r.done]
           /\ crashed' = ~r.done
    /\ UNCHANGED <<mvars, pvars, xvars, nodeType, parent, children, sentinelCalls, lvars>>

\* ------------------------------------------------------------------------
\* List: engine_list.cpp
\* ------------------------------------------------------------------------

\* List::reset
Reset ==
    /\ ~crashed
    /\ renderableElem' = <<>>
    /\ nrOfLights' = 0
    /\ lLast' = [NoListOp EXCEPT !.op = "reset"]
    /\ nLast' = NoNodeOp
    /\ UNCHANGED <<mvars, pvars, xvars, crashed, nodeType, parent, children, sentinelCalls>>

\* List::process on one node and, recursively, on its children.  st is the
\* list under construction; visited logs the nodes in the order process is
\* entered for them.  A call nested deeper than the number of nodes is on a
\* cycle and recurses until the stack overflows.
RECURSIVE process(_, _, _, _)
RECURSIVE processChildren(_, _, _, _, _)
\* process without its safety net: the sentinel is walked like any other node
processNoSafetyNet(node, prevMatrix, st, depth) ==
    IF depth > NNodes
    THEN [st EXCEPT !.ret = FALSE, !.overflow = TRUE]
    ELSE LET re  == [reference |-> node, matrix |-> Mul(prevMatrix, getMatrix(node))]
             st1 == [st EXCEPT !.visited = Append(@, node)]
             st2 == IF nodeType[node] = "Light"
                    THEN [st1 EXCEPT !.elems = <<re>> \o @, !.lights = @ + 1]
                    ELSE IF nodeType[node] = "Mesh"
                    THEN [st1 EXCEPT !.elems = Append(@, re)]
                    ELSE st1
         IN  processChildren(children[node], 1, re.matrix, st2, depth)

\* process with the lights kept in discovery order: a light is inserted after
\* the lights already in the list instead of at the front
processLightsInOrder(node, prevMatrix, st, depth) ==
    IF node = empty
    THEN [st EXCEPT !.ret = FALSE]
    ELSE IF depth > NNodes
    THEN [st EXCEPT !.ret = FALSE, !.overflow = TRUE]
    ELSE LET re  == [reference |-> node, matrix |-> Mul(prevMatrix, getMatrix(node))]
             st1 == [st EXCEPT !.visited = Append(@, node)]
             st2 == IF nodeType[node] = "Light"
                    THEN [st1 EXCEPT !.elems = SubSeq(@, 1, st.lights) \o <<re>>
                                                 \o SubSeq(@, st.lights + 1, Len(@)),
                                     !.lights = @ + 1]
                    ELSE IF nodeType[node] = "Mesh"
                    THEN [st1 EXCEPT !.elems = Append(@, re)]
                    ELSE st1
         IN  processChildren(children[node], 1, re.matrix, st2, depth)

process(node, prevMatrix, st, depth) ==
    IF node = empty
    THEN [st EXCEPT !.ret = FALSE]
    ELSE IF depth > NNodes
    THEN [st EXCEPT !.ret = FALSE, !.overflow = TRUE]
    ELSE LET re  == [reference |-> node, matrix |-> Mul(prevMatrix, getMatrix(node))]
             st1 == [st EXCEPT !.visited = Append(@, node)]
             st2 == IF nodeType[node] = "Light"
                    THEN [st1 EXCEPT !.elems = <<re>> \o @, !.lights = @ + 1]
                    ELSE IF nodeType[node] = "Mesh"
                    THEN [st1 EXCEPT !.elems = Append(@, re)]
                    ELSE st1
         IN  processChildren(children[node], 1, re.matrix, st2, depth)

processChildren(list, i, matrix, st, depth) ==
    IF i > Len(list)
    THEN [st EXCEPT !.ret = TRUE]
    ELSE LET r == process(list[i], matrix, st, depth + 1)
         IN  IF r.ret = FALSE
             THEN r
             ELSE processChildren(list, i + 1, matrix, r, depth)

\* List::process(root, prevMatrix)
ProcessFrom(root, prevMatrix) ==
    /\ ~crashed
    /\ LET r == process(root, prevMatrix,
                        [elems |-> renderableElem, lights |-> nrOfLights, ret |-> TRUE,
                         overflow |-> FALSE, visited |-> <<>>], 1)
       IN  /\ r.overflow \/ Len(r.elems) <= MaxElems
           /\ crashed' = r.overflow
           /\ IF r.overflow
              THEN /\ UNCHANGED <<renderableElem, nrOfLights>>
                   /\ lLast' = [NoListOp EXCEPT !.op = "process", !.root = root,
                                                !.ret = FALSE, !.done = FALSE]
              ELSE /\ renderableElem' = r.elems
                   /\ nrOfLights' = r.lights
                   /\ lLast' = [NoListOp EXCEPT !.op = "process", !.root = root,
                                                !.ret = r.ret, !.visited = r.visited,
                                                !.preLen = Len(renderableElem),
                                                !.preLights = nrOfLights]
    /\ nLast' = NoNodeOp
    /\ UNCHANGED <<mvars, pvars, xvars, nodeType, parent, children, sentinelCalls>>

\* List::process(root) with the default prevMatrix = glm::mat4(1.0f)
Process(root) == ProcessFrom(root, Identity)

\* List::Pass (the categories)
Passes == {"all", "lights", "meshes"}

\* the "switch (pass)" of List::render: first index of the range
StartRange(pass, size, lights) == IF pass = "meshes" THEN lights ELSE 0

\* a lights pass that forgets to stop at the last light
EndRangeWholeList(pass, size, lights) == size

\* the "switch (pass)" of List::render: index after the last one of the range
EndRange(pass, size, lights) == IF pass = "lights" THEN lights ELSE size

\* The for loop of List::render: the render(0, &info) calls it makes, in the
\* order it makes them.  index is the position c of the element (from 0),
\* camMatrix and objMatrix are the fields of the RenderableElemInfo passed.
RenderCalls(elems, lights, cameraMatrix, pass) ==
    LET startRange == StartRange(pass, Len(elems), lights)
        endRange   == EndRange(pass, Len(elems), lights)
    IN  [k \in 1 .. (IF endRange > startRange THEN endRange - startRange ELSE 0) |->
            [index     |-> startRange + k - 1,
             reference |-> elems[startRange + k].reference,
             camMatrix |-> cameraMatrix,
             objMatrix |-> elems[startRange + k].matrix]]

\* List::render(cameraMatrix, pass)
Render(cameraMatrix, pass) ==
    /\ ~crashed
    /\ lLast' = [NoListOp EXCEPT !.op = "render",
                                 !.calls = RenderCalls(renderableElem, nrOfLights,
                                                       cameraMatrix, pass)]
    /\ nLast' = NoNodeOp
    /\ UNCHANGED <<mvars, pvars, xvars, crashed, nodeType, parent, children, sentinelCalls,
                   renderableElem, nrOfLights>>

\* ------------------------------------------------------------------------
\* PipelineDefault: engine_pipeline_default.cpp, engine_pipeline.cpp.  A
\* pipeline is an Object (dirty flag) and a Managed (registry); the registry
\* entries of its member objects (shaders, program, shadow-mapping pipeline)
\* are not part of the model.
\* ------------------------------------------------------------------------

\* PipelineDefault::PipelineDefault(): Object() sets dirty, Managed() makes
\* the Reserved block
PipelineConstruct(s) ==
    /\ ~crashed
    /\ UNCHANGED <<nvars, lvars, xvars>>
    /\ ~alive[s]
    /\ LET r == FreshBlock(reserved, alive)
       IN  /\ reserved' = [reserved EXCEPT ![s] = r]
           /\ initialized' = [initialized EXCEPT ![r] = FALSE]
    /\ alive' = [alive EXCEPT ![s] = TRUE]
    /\ kind' = [kind EXCEPT ![s] = "Pipeline"]
    /\ wrapperReserved' = [wrapperReserved EXCEPT ![s] = TRUE]
    /\ dirty' = [dirty EXCEPT ![s] = TRUE]
    /\ mLast' = [NoOp EXCEPT !.op = "construct", !.self = s]
    /\ pLast' = NoRender
    /\ UNCHANGED <<allManaged, crashed>>

\* an init() that builds the program and leaves the dirty flag set
PipelineDefaultInitStaysDirty(reg, res, ini, dty, s, buildOk) ==
    LET m == ManagedInit(reg, res, ini, s)
    IN  IF ~m.ret
        THEN [reg |-> reg, ini |-> ini, dty |-> dty, ret |-> FALSE]
        ELSE IF ~dty[s]
        THEN [reg |-> m.reg, ini |-> m.ini, dty |-> dty, ret |-> FALSE]
        ELSE IF ~buildOk
        THEN [reg |-> m.reg, ini |-> m.ini, dty |-> dty, ret |-> FALSE]
        ELSE [reg |-> m.reg, ini |-> m.ini, dty |-> dty, ret |-> TRUE]

\* PipelineDefault::init; buildOk is the result of reserved->program.build()
PipelineDefaultInit(reg, res, ini, dty, s, buildOk) ==
    LET m == ManagedInit(reg, res, ini, s)
    IN  IF ~m.ret
        THEN [reg |-> reg, ini |-> ini, dty |-> dty, ret |-> FALSE]
        ELSE IF ~dty[s]
        THEN [reg |-> m.reg, ini |-> m.ini, dty |-> dty, ret |-> FALSE]
        ELSE IF ~buildOk
        THEN [reg |-> m.reg, ini |-> m.ini, dty |-> dty, ret |-> FALSE]
        ELSE [reg |-> m.reg, ini |-> m.ini, dty |-> [dty EXCEPT ![s] = FALSE], ret |-> TRUE]

\* an explicit call of init() on the pipeline in s
PipelineInit(s, buildOk) ==
    /\ ~crashed
    /\ UNCHANGED <<nvars, lvars, xvars>>
    /\ alive[s]
    /\ kind[s] = "Pipeline"
    /\ LET r == PipelineDefaultInit(allManaged, reserved, initialized, dirty, s, buildOk)
       IN  /\ allManaged' = r.reg
           /\ initialized' = r.ini
           /\ dirty' = r.dty
           /\ mLast' = [NoOp EXCEPT !.op = "init", !.self = s, !.ret = r.ret,
                                    !.wasInit = initialized[reserved[s]]]
    /\ pLast' = NoRender
    /\ UNCHANGED <<alive, kind, reserved, wrapperReserved, crashed>>

\* PipelineDefault::render(camera, list); valid: neither argument is the
\* empty object.  initCalls counts the init() calls it makes, drew tells
\* whether it got as far as applying the program and drawing.
PipelineRender(s, valid, buildOk) ==
    /\ ~crashed
    /\ UNCHANGED <<nvars, lvars, xvars>>
    /\ alive[s]
    /\ kind[s] = "Pipeline"
    /\ IF ~valid
       THEN /\ pLast' = [NoRender EXCEPT !.op = "render", !.self = s, !.ret = FALSE,
                                         !.wasDirty = dirty[s]]
            /\ UNCHANGED <<allManaged, initialized, dirty>>
       ELSE IF dirty[s]
       THEN LET r == PipelineDefaultInit(allManaged, reserved, initialized, dirty, s, buildOk)
            IN  /\ allManaged' = r.reg
                /\ initialized' = r.ini
                /\ dirty' = r.dty
                /\ pLast' = [NoRender EXCEPT !.op = "render", !.self = s, !.ret = r.ret,
                                             !.wasDirty = TRUE, !.initCalls = 1,
                                             !.initRet = r.ret, !.drew = r.ret]
       ELSE /\ pLast' = [NoRender EXCEPT !.op = "render", !.self = s, !.ret = TRUE,
                                         !.drew = TRUE]
            /\ UNCHANGED <<allManaged, initialized, dirty>>
    /\ mLast' = [NoOp EXCEPT !.op = "render", !.self = s]
    /\ UNCHANGED <<alive, kind, reserved, wrapperReserved, crashed>>

\* ------------------------------------------------------------------------
\* Object: engine_object.cpp
\* ------------------------------------------------------------------------

ObjStorages == 1 .. NStorages

\* the null unique_ptr<Object::Reserved>
ObjNull == 0

NoObjOp == [op |-> "none", self |-> 0, other |-> 0, wasShell |-> FALSE, counter |-> 0]

\* a Reserved constructor that reads idCounter without advancing it
ReservedCtorKeepsIdCounter(idc, cnt) == [id |-> idc, idCounter |-> idc, counter |-> cnt + 1]

\* Object::Reserved::Reserved(): id{ idCounter++ } and counter++.  idCounter is
\* a uint32_t: it wraps to 0 after 2^32 allocations, far beyond MaxBlocks.
ReservedCtor(idc, cnt) == [id |-> idc, idCounter |-> idc + 1, counter |-> cnt + 1]

\* a Reserved destructor that leaves the counter alone
ReservedDtorKeepsCounter(cnt) == cnt

\* Object::Reserved::~Reserved(): counter--
ReservedDtor(cnt) == cnt - 1

\* Object::getId (of an object that has not been moved from)
getId(s) == objBlocks[objReserved[s]].id

\* Object::getNrOfObjects
getNrOfObjects == counter

\* Object::Object(): reserved(std::make_unique<Reserved>())
ObjectConstruct(s) ==
    /\ ~objAlive[s]
    /\ Len(objBlocks) < MaxBlocks
    /\ LET r == ReservedCtor(idCounter, counter)
       IN  /\ objBlocks' = Append(objBlocks, [id |-> r.id, live |-> TRUE])
           /\ idCounter' = r.idCounter
           /\ counter' = r.counter
    /\ objReserved' = [objReserved EXCEPT ![s] = Len(objBlocks) + 1]
    /\ objAlive' = [objAlive EXCEPT ![s] = TRUE]
    /\ oLast' = [NoObjOp EXCEPT !.op = "construct", !.self = s, !.counter = counter]
    /\ UNCHANGED <<mvars, nvars, lvars, pvars, fvars, tvars, cvars, crashed>>

\* Object::Object(Object &&other): reserved(std::move(other.reserved)), the
\* object in a moved into the new storage b
ObjectMove(a, b) ==
    /\ objAlive[a]
    /\ ~objAlive[b]
    /\ objReserved' = [objReserved EXCEPT ![b] = objReserved[a], ![a] = ObjNull]
    /\ objAlive' = [objAlive EXCEPT ![b] = TRUE]
    /\ oLast' = [NoObjOp EXCEPT !.op = "move", !.self = b, !.other = a,
                                !.wasShell = (objReserved[a] = ObjNull), !.counter = counter]
    /\ UNCHANGED <<objBlocks, counter, idCounter>>
    /\ UNCHANGED <<mvars, nvars, lvars, pvars, fvars, tvars, cvars, crashed>>

\* Object::~Object: the unique_ptr releases the Reserved block if it holds one
ObjectDestroy(s) ==
    /\ objAlive[s]
    /\ IF objReserved[s] = ObjNull
       THEN UNCHANGED <<objBlocks, counter>>
       ELSE /\ counter' = ReservedDtor(counter)
            /\ objBlocks' = [objBlocks EXCEPT ![objReserved[s]].live = FALSE]
    /\ objReserved' = [objReserved EXCEPT ![s] = ObjNull]
    /\ objAlive' = [objAlive EXCEPT ![s] = FALSE]
    /\ oLast' = [NoObjOp EXCEPT !.op = "destroy", !.self = s,
                                !.wasShell = (objReserved[s] = ObjNull), !.counter = counter]
    /\ UNCHANGED idCounter
    /\ UNCHANGED <<mvars, nvars, lvars, pvars, fvars, tvars, cvars, crashed>>

\* ------------------------------------------------------------------------
\* Fbo: engine_fbo.cpp
\* ------------------------------------------------------------------------

\* Fbo::Attachment::Type of the texture attachments
TextureAttachments == {"color_texture", "depth_texture"}

NoFboOp == [op |-> "none", self |-> 0, ret |-> TRUE, wasInit |-> FALSE,
            visited |-> <<>>, released |-> <<>>]

\* the lazy load of the attach calls: if (!this->isInitialized()) this->init();
FboLazyInit(reg, res, ini, s) ==
    IF isInitialized(res, ini, s)
    THEN [reg |-> reg, ini |-> ini]
    ELSE LET m == ManagedInit(reg, res, ini, s) IN [reg |-> m.reg, ini |-> m.ini]

\* Fbo::attachTexture with a texture whose format gives the attachment type
FboAttachTexture(s, type) ==
    /\ ~crashed
    /\ alive[s] /\ kind[s] = "Fbo" /\ reserved[s] # Null /\ wrapperReserved[s]
    /\ Len(attachment[s]) < MaxAttachments
    /\ LET m == FboLazyInit(allManaged, reserved, initialized, s)
       IN  /\ allManaged' = m.reg
           /\ initialized' = m.ini
    /\ attachment' = [attachment EXCEPT ![s] = Append(@, [type |-> type, data |-> 0])]
    /\ mLast' = NoOp
    /\ fLast' = [NoFboOp EXCEPT !.op = "attachTexture", !.self = s]
    /\ UNCHANGED <<alive, kind, reserved, wrapperReserved, crashed, renderbuffers>>
    /\ UNCHANGED <<nvars, lvars, pvars, ovars, tvars, cvars>>

\* Fbo::attachDepthBuffer: the attachment's data is the new render buffer name
FboAttachDepthBuffer(s) ==
    /\ ~crashed
    /\ alive[s] /\ kind[s] = "Fbo" /\ reserved[s] # Null /\ wrapperReserved[s]
    /\ Len(attachment[s]) < MaxAttachments
    /\ renderbuffers < MaxRenderbuffers
    /\ LET m == FboLazyInit(allManaged, reserved, initialized, s)
       IN  /\ allManaged' = m.reg
           /\ initialized' = m.ini
    /\ renderbuffers' = renderbuffers + 1
    /\ attachment' = [attachment EXCEPT
                         ![s] = Append(@, [type |-> "depth_buffer", data |-> renderbuffers + 1])]
    /\ mLast' = NoOp
    /\ fLast' = [NoFboOp EXCEPT !.op = "attachDepthBuffer", !.self = s]
    /\ UNCHANGED <<alive, kind, reserved, wrapperReserved, crashed>>
    /\ UNCHANGED <<nvars, lvars, pvars, ovars, tvars, cvars>>

\* The loop of Fbo::free:
\*   for (c = 0; c < getNrOfAttachments(); c++) { att = attachment.at(c); ...;
\*                                                attachment.erase(begin() + c); }
\* att is the vector, c the zero-based index; visited logs the attachments read
\* and released the render buffer names passed to glDeleteRenderbuffers.
RECURSIVE FboFreeLoop(_, _, _, _)
FboFreeLoop(att, c, visited, released) ==
    IF c < Len(att)
    THEN LET a == att[c + 1]
         IN  FboFreeLoop(RemoveAt(att, c + 1), c + 1, Append(visited, a),
                         IF a.type = "depth_buffer" THEN Append(released, a.data)
                                                    ELSE released)
    ELSE [att |-> att, visited |-> visited, released |-> released]

\* Fbo::free: Managed::free, then the loop over the attachments
FboFree(s) ==
    /\ ~crashed
    /\ alive[s] /\ kind[s] = "Fbo"
    /\ LET r == VirtualFree(allManaged, reserved, initialized, wrapperReserved, kind, s)
           l == FboFreeLoop(attachment[s], 0, <<>>, <<>>)
       IN  /\ allManaged' = r.reg
           /\ initialized' = r.ini
           /\ crashed' = r.crash
           /\ attachment' = IF r.crash THEN attachment ELSE [attachment EXCEPT ![s] = l.att]
           /\ mLast' = [NoOp EXCEPT !.op = IF r.crash THEN "crash" ELSE "free",
                                    !.self = s, !.ret = r.ret,
                                    !.wasInit = (reserved[s] # Null /\ initialized[reserved[s]])]
           /\ fLast' = IF r.crash THEN NoFboOp
                       ELSE [NoFboOp EXCEPT !.op = "free", !.self = s, !.ret = r.ret,
                                            !.wasInit = (reserved[s] # Null
                                                         /\ initialized[reserved[s]]),
                                            !.visited = l.visited, !.released = l.released]
    /\ UNCHANGED <<alive, kind, reserved, wrapperReserved, renderbuffers>>
    /\ UNCHANGED <<nvars, lvars, pvars, ovars, tvars, cvars>>

\* ------------------------------------------------------------------------
\* Node::getTreeAsString: engine_node.cpp
\* ------------------------------------------------------------------------

NoTreeOp == [op |-> "none", node |-> 0, ret |-> <<>>, done |-> TRUE]

\* The text is a sequence of lines; the line
\*   std::string(calls, ' ') + "+ " + getName() + '\n'
\* is the pair of its indentation and of the node whose name it shows.
TreeLine(calls, node) == [indent |-> calls, name |-> node]

\* Node::getTreeAsString on one node and, recursively, on its children.  st
\* holds the statics output and calls.  A call nested deeper than the number
\* of nodes is on a cycle and recurses until the stack overflows.
RECURSIVE getTreeAsString(_, _)
RECURSIVE getTreeChildren(_, _, _)
getTreeAsString(node, st) ==
    IF st.calls > NNodes
    THEN [st EXCEPT !.overflow = TRUE]
    ELSE LET reset == IF st.calls = 0 THEN <<>> ELSE st.output
             st1   == [st EXCEPT !.output = Append(reset, TreeLine(st.calls, node)),
                                 !.calls = @ + 1]
             r     == getTreeChildren(children[node], 1, st1)
         IN  IF r.overflow THEN r
             ELSE [r EXCEPT !.calls = @ - 1,
                            !.ret = IF r.calls - 1 = 0 THEN r.output ELSE <<>>]

getTreeChildren(list, i, st) ==
    IF i > Len(list) \/ st.overflow
    THEN st
    ELSE getTreeChildren(list, i + 1, getTreeAsString(list[i], st))

\* the outermost call n.getTreeAsString()
GetTreeAsString(n) ==
    /\ ~crashed
    /\ LET r == getTreeAsString(n, [output |-> treeOutput, calls |-> treeCalls,
                                    overflow |-> FALSE, ret |-> <<>>])
       IN  /\ crashed' = r.overflow
           /\ treeOutput' = r.output
           /\ treeCalls' = r.calls
           /\ tLast' = [NoTreeOp EXCEPT !.op = "getTreeAsString", !.node = n,
                                        !.ret = r.ret, !.done = ~r.overflow]
    /\ nLast' = NoNodeOp
    /\ UNCHANGED <<mvars, lvars, pvars, ovars, fvars, cvars>>
    /\ UNCHANGED <<nodeType, parent, children, sentinelCalls>>

\* ------------------------------------------------------------------------
\* Container: engine_container.cpp
\* ------------------------------------------------------------------------

\* The objects an application hands to the container: the nodes (plain nodes,
\* lights and meshes, see nodeType) and NExtras materials and textures.  An
\* object is named by the storage it was constructed in.
ExtraObjects == NNodes + 1 .. NNodes + NExtras

CObjects == RealNodes \cup ExtraObjects

\* the sentinel Object::empty
emptyObject == 0

\* the dynamic type that Container::add dispatches on
TypeOf(o) ==
    IF o \in RealNodes THEN nodeType[o]
    ELSE IF (o - NNodes) % 2 = 1 THEN "Material" ELSE "Texture"

\* the storage of the list element that add() move-constructs from object o
Cell(o) == NNodes + NExtras + o

\* Object::getId of an application object: positive (the static sentinels are
\* constructed first) and distinct
ContainerId(o) == o

\* the names objects are given (the second one is the default of Reserved())
Names == {"a", "[none]"}

\* the names and ids find is asked for
QueryNames == {"", "a", "b", "[none]"}

QueryIds == 0 .. NNodes + NExtras + 1

NoContainerOp == [op |-> "none", obj |-> 0, ret |-> 0, name |-> "", id |-> 0]

\* Container::add(obj), obj being the object o with the name the application
\* gave it.  The list element is move-constructed from obj (Node(Node &&) and
\* the like move the reserved pointers and nothing else), which leaves obj a
\* moved-from shell.  add() is not called on a shell.
ContainerAdd(o, name) ==
    /\ ~crashed
    /\ o \notin cShell
    /\ IF o = emptyObject
       THEN /\ cLast' = [NoContainerOp EXCEPT !.op = "add", !.obj = o, !.ret = 0]
            /\ UNCHANGED <<allMaterials, allTextures, allMeshes, allLights, allNodes,
                           cName, cShell>>
       ELSE /\ allMeshes' = IF TypeOf(o) = "Mesh" THEN Append(allMeshes, o) ELSE allMeshes
            /\ allLights' = IF TypeOf(o) = "Light" THEN Append(allLights, o) ELSE allLights
            /\ allNodes' = IF TypeOf(o) = "Node" THEN Append(allNodes, o) ELSE allNodes
            /\ allMaterials' = IF TypeOf(o) = "Material" THEN Append(allMaterials, o)
                               ELSE allMaterials
            /\ allTextures' = IF TypeOf(o) = "Texture" THEN Append(allTextures, o)
                              ELSE allTextures
            /\ cName' = [cName EXCEPT ![o] = name]
            /\ cShell' = cShell \cup {o}
            /\ cLast' = [NoContainerOp EXCEPT !.op = "add", !.obj = o, !.ret = 1]
    /\ nLast' = NoNodeOp
    /\ UNCHANGED <<mvars, lvars, pvars, ovars, fvars, tvars, crashed>>
    /\ UNCHANGED <<nodeType, parent, children, sentinelCalls>>

\* Container::reset
ContainerReset ==
    /\ ~crashed
    /\ allNodes' = <<>>
    /\ allMeshes' = <<>>
    /\ allLights' = <<>>
    /\ allMaterials' = <<>>
    /\ allTextures' = <<>>
    /\ cLast' = [NoContainerOp EXCEPT !.op = "reset", !.ret = 1]
    /\ UNCHANGED <<cName, cShell>>
    /\ UNCHANGED <<mvars, nvars, lvars, pvars, ovars, fvars, tvars, crashed>>

\* for (auto &c : list) if (c.getName() == name) return c;   0 when the loop ends
ScanName(list, names, name) ==
    LET hits == { i \in DOMAIN list : names[list[i]] = name }
    IN  IF hits = {} THEN 0 ELSE Cell(list[Min(hits)])

\* for (auto &c : list) if (c.getId() == id) return c;   0 when the loop ends
ScanId(list, id) ==
    LET hits == { i \in DOMAIN list : ContainerId(list[i]) = id }
    IN  IF hits = {} THEN 0 ELSE Cell(list[Min(hits)])

\* a find that searches the nodes before the other collections
findNameNodesFirst(mats, texs, meshes, lights, nodes, names, name) ==
    IF name = "" THEN emptyObject
    ELSE IF ScanName(nodes, names, name) # 0 THEN ScanName(nodes, names, name)
    ELSE IF ScanName(mats, names, name) # 0 THEN ScanName(mats, names, name)
    ELSE IF ScanName(texs, names, name) # 0 THEN ScanName(texs, names, name)
    ELSE IF ScanName(meshes, names, name) # 0 THEN ScanName(meshes, names, name)
    ELSE IF ScanName(lights, names, name) # 0 THEN ScanName(lights, names, name)
    ELSE emptyObject

\* Container::find(const std::string &name)
findName(mats, texs, meshes, lights, nodes, names, name) ==
    IF name = "" THEN emptyObject
    ELSE IF ScanName(mats, names, name) # 0 THEN ScanName(mats, names, name)
    ELSE IF ScanName(texs, names, name) # 0 THEN ScanName(texs, names, name)
    ELSE IF ScanName(meshes, names, name) # 0 THEN ScanName(meshes, names, name)
    ELSE IF ScanName(lights, names, name) # 0 THEN ScanName(lights, names, name)
    ELSE IF ScanName(nodes, names, name) # 0 THEN ScanName(nodes, names, name)
    ELSE emptyObject

\* Container::find(const uint32_t id)
findId(mats, texs, meshes, lights, nodes, id) ==
    IF id = 0 THEN emptyObject
    ELSE IF ScanId(mats, id) # 0 THEN ScanId(mats, id)
    ELSE IF ScanId(texs, id) # 0 THEN ScanId(texs, id)
    ELSE IF ScanId(meshes, id) # 0 THEN ScanId(meshes, id)
    ELSE IF ScanId(lights, id) # 0 THEN ScanId(lights, id)
    ELSE IF ScanId(nodes, id) # 0 THEN ScanId(nodes, id)
    ELSE emptyObject

\* the call find(name)
FindName(name) ==
    /\ ~crashed
    /\ cLast' = [NoContainerOp EXCEPT
                    !.op = "findName", !.name = name,
                    !.ret = findName(allMaterials, allTextures, allMeshes, allLights,
                                     allNodes, cName, name)]
    /\ UNCHANGED <<allMaterials, allTextures, allMeshes, allLights, allNodes, cName, cShell>>
    /\ UNCHANGED <<mvars, nvars, lvars, pvars, ovars, fvars, tvars, crashed>>

\* the call find(id)
FindId(id) ==
    /\ ~crashed
    /\ cLast' = [NoContainerOp EXCEPT
                    !.op = "findId", !.id = id,
                    !.ret = findId(allMaterials, allTextures, allMeshes, allLights,
                                   allNodes, id)]
    /\ UNCHANGED <<allMaterials, allTextures, allMeshes, allLights, allNodes, cName, cShell>>
    /\ UNCHANGED <<mvars, nvars, lvars, pvars, ovars, fvars, tvars, crashed>>

\* ------------------------------------------------------------------------
\* Specifications
\* ------------------------------------------------------------------------

InitManaged ==
    /\ alive = [s \in Slots |-> FALSE]
    /\ kind = [s \in Slots |-> "none"]
    /\ reserved = [s \in Slots |-> Null]
    /\ initialized = [r \in Blocks |-> FALSE]
    /\ wrapperReserved = [s \in Slots |-> FALSE]
    /\ allManaged = <<>>
    /\ crashed = FALSE
    /\ mLast = NoOp

InitNode ==
    /\ nodeType = [n \in Nodes |-> "Node"]
    /\ parent = [n \in Nodes |-> empty]
    /\ children = [n \in Nodes |-> <<>>]
    /\ nLast = NoNodeOp
    /\ sentinelCalls = 0

InitList ==
    /\ renderableElem = <<>>
    /\ nrOfLights = 0
    /\ lLast = NoListOp

InitPipeline ==
    /\ dirty = [s \in Slots |-> FALSE]
    /\ pLast = NoRender

InitObject ==
    /\ objAlive = [s \in ObjStorages |-> FALSE]
    /\ objReserved = [s \in ObjStorages |-> ObjNull]
    /\ objBlocks = <<>>
    /\ counter = 0
    /\ idCounter = 0
    /\ oLast = NoObjOp

InitFbo ==
    /\ attachment = [s \in Slots |-> <<>>]
    /\ renderbuffers = 0
    /\ fLast = NoFboOp

InitTree ==
    /\ treeOutput = <<>>
    /\ treeCalls = 0
    /\ tLast = NoTreeOp

InitContainer ==
    /\ allMaterials = <<>>
    /\ allTextures = <<>>
    /\ allMeshes = <<>>
    /\ allLights = <<>>
    /\ allNodes = <<>>
    /\ cName = [o \in CObjects |-> "[none]"]
    /\ cShell = {}
    /\ cLast = NoContainerOp

Init ==
    /\ InitManaged /\ InitNode /\ InitList /\ InitPipeline
    /\ InitObject /\ InitFbo /\ InitTree /\ InitContainer

\* The nodes are interchangeable, so the type assignments are taken up to a
\* renaming of the nodes: plain nodes first, then lights, then meshes.  A scene
\* has at least one light and one mesh and at most one plain node.
TypeRank(t) == IF t = "Node" THEN 0 ELSE IF t = "Light" THEN 1 ELSE 2

TypeAssignments ==
    { f \in [Nodes -> NodeTypes] :
        /\ f[empty] = "Node"
        /\ \A m, n \in RealNodes : m < n => TypeRank(f[m]) <= TypeRank(f[n])
        /\ Cardinality({ n \in RealNodes : f[n] = "Node" }) <= 1
        /\ \E n \in RealNodes : f[n] = "Light"
        /\ \E n \in RealNodes : f[n] = "Mesh" }

\* a scene whose nodes are plain nodes, lights and meshes
InitScene ==
    /\ InitManaged
    /\ nodeType \in TypeAssignments
    /\ parent = [n \in Nodes |-> empty]
    /\ children = [n \in Nodes |-> <<>>]
    /\ nLast = NoNodeOp
    /\ sentinelCalls = 0
    /\ InitList
    /\ InitPipeline
    /\ InitObject /\ InitFbo /\ InitTree /\ InitContainer

NextManaged ==
    \/ \E s \in Slots, k \in Kinds : Construct(s, k)
    \/ \E a \in Slots, b \in Slots : MoveConstruct(a, b)
    \/ \E s \in Slots : Init_(s)
    \/ \E s \in Slots : Free_(s)
    \/ \E s \in Slots : Destroy(s)
    \/ ForceRelease
    \/ DumpReport

SpecManaged == Init /\ [][NextManaged]_vars

NextNode ==
    \/ \E a \in Nodes, child \in Nodes : AddChild(a, child)
    \/ \E a \in Nodes, id \in 0 .. MaxChildren : RemoveChild(a, id)
    \/ \E a \in Nodes, id \in 0 .. MaxChildren : GetChild(a, id)
    \/ \E n \in RealNodes, root \in Nodes : GetWorldMatrix(n, root)

SpecNode == Init /\ [][NextNode]_vars

\* The per-frame protocol: the hierarchy is edited while the list is reset,
\* then process() fills the list.
NextList ==
    \/ renderableElem = <<>> /\ \E a \in Nodes, child \in Nodes : AddChild(a, child)
    \/ renderableElem = <<>> /\ \E a \in Nodes, id \in 0 .. MaxChildren : RemoveChild(a, id)
    \/ Reset
    \/ \E root \in Nodes : Process(root)

SpecList == InitScene /\ [][NextList]_vars

\* The per-frame protocol of a pipeline: as above, with process() called below
\* an accumulated matrix and the list handed to render().
NextRender ==
    \/ renderableElem = <<>> /\ \E a \in Nodes, child \in Nodes : AddChild(a, child)
    \/ renderableElem = <<>> /\ \E a \in Nodes, id \in 0 .. MaxChildren : RemoveChild(a, id)
    \/ Reset
    \/ \E root \in Nodes : ProcessFrom(root, PrevMatrix)
    \/ \E pass \in Passes : Render(CameraMatrix, pass)

SpecRender == InitScene /\ [][NextRender]_vars

\* the life of the pipelines of an application
NextPipeline ==
    \/ \E s \in Slots : PipelineConstruct(s)
    \/ \E s \in Slots, buildOk \in BOOLEAN : PipelineInit(s, buildOk)
    \/ \E s \in Slots, valid \in BOOLEAN, buildOk \in BOOLEAN : PipelineRender(s, valid, buildOk)
    \/ \E s \in Slots : Free_(s)
    \/ \E s \in Slots : Destroy(s)
    \/ ForceRelease

SpecPipeline == Init /\ [][NextPipeline]_vars

\* the life of plain Objects: construction, moves to new storage, destruction
NextObject ==
    \/ \E s \in ObjStorages : ObjectConstruct(s)
    \/ \E a \in ObjStorages, b \in ObjStorages : ObjectMove(a, b)
    \/ \E s \in ObjStorages : ObjectDestroy(s)

SpecObject == Init /\ [][NextObject]_vars

\* the life of framebuffer objects
NextFbo ==
    \/ \E s \in Slots : Construct(s, "Fbo")
    \/ \E s \in Slots : Init_(s)
    \/ \E s \in Slots, type \in TextureAttachments : FboAttachTexture(s, type)
    \/ \E s \in Slots : FboAttachDepthBuffer(s)
    \/ \E s \in Slots : FboFree(s)

SpecFbo == Init /\ [][NextFbo]_vars

\* hierarchy edits and debug dumps
NextTree ==
    \/ \E a \in Nodes, child \in Nodes : AddChild(a, child)
    \/ \E a \in Nodes, id \in 0 .. MaxChildren : RemoveChild(a, id)
    \/ \E n \in Nodes : GetTreeAsString(n)

SpecTree == Init /\ [][NextTree]_vars

\* An application that hands its objects to the container and looks them up.
NextContainer ==
    \/ \E o \in CObjects \cup {emptyObject}, name \in Names : ContainerAdd(o, name)
    \/ ContainerReset
    \/ \E name \in QueryNames : FindName(name)
    \/ \E id \in QueryIds : FindId(id)

SpecContainer == InitScene /\ [][NextContainer]_vars

\* An application that links its nodes first and then hands them to the
\* container.
NextLoad ==
    \/ cShell = {} /\ \E a \in RealNodes, child \in RealNodes : AddChild(a, child)
    \/ \E o \in RealNodes, name \in Names : ContainerAdd(o, name)

SpecLoad == InitScene /\ [][NextLoad]_vars

\* ------------------------------------------------------------------------
\* Managed: properties
\* ------------------------------------------------------------------------

\* the object in s is a complete object (not a moved-from shell)
Intact(s) == alive[s] /\ reserved[s] # Null /\ (kind[s] # "Managed" => wrapperReserved[s])

C3_ForceReleaseLeavesNoneInitialized ==
    mLast.op = "forceRelease" =>
        /\ \A s \in Slots : (alive[s] /\ reserved[s] # Null) => ~initialized[reserved[s]]
        /\ DumpInitialized(allManaged, reserved, initialized) = 0

\* forceRelease() has returned after releasing two initialized objects
C3_Witness == mLast.op = "forceRelease" /\ mLast.inits >= 2

\* C4: the registry holds exactly one entry for each constructed instance that
\* is initialized, and nothing else (no entry for an uninitialized or destroyed
\* instance, no instance twice).
C4_RegistryIsTheInitializedSet ==
    /\ \A i, j \in DOMAIN allManaged : allManaged[i] = allManaged[j] => i = j
    /\ Range(allManaged) =
          { s \in Slots : alive[s] /\ reserved[s] # Null /\ initialized[reserved[s]] }

\* an initialized object has been destroyed while another one is registered
C4_Witness == mLast.op = "destroy" /\ mLast.wasInit /\ Len(allManaged) >= 1

\* C5: after move-constructing B from an initialized, registered A the
\* registry holds one entry for B, none for A, and B is initialized.
C5_MoveTransfersRegistryEntry ==
    (mLast.op = "move" /\ mLast.wasInit) =>
        /\ Count(allManaged, mLast.self) = 1
        /\ Count(allManaged, mLast.other) = 0
        /\ reserved[mLast.self] # Null
        /\ initialized[reserved[mLast.self]]

\* C15: free() on an object that is already free, was never initialized or has
\* been moved from returns true, changes neither the registry nor any
\* initialized flag and reads no moved-away storage (the call returns).
C15_FreeOnFreeObjectIsNoOp ==
    [][\A s \in Slots :
        (Free_(s) /\ (~Intact(s) \/ ~initialized[reserved[s]])) =>
            /\ mLast'.op = "free"
            /\ mLast'.ret
            /\ ~crashed'
            /\ allManaged' = allManaged
            /\ initialized' = initialized
      ]_vars

\* C20: a newly constructed pipeline is dirty; render() calls init() once when
\* it finds the pipeline dirty and never otherwise; when that init() succeeds
\* the pipeline is initialized and no longer dirty before anything is drawn;
\* a pipeline that is no longer dirty stays so, so that the later render()
\* calls do not call init() again.
C20_LazyInitOnFirstRender ==
    [][\A s \in Slots :
        /\ \A valid \in BOOLEAN, buildOk \in BOOLEAN :
              PipelineRender(s, valid, buildOk) =>
                  /\ (mLast.op = "construct" /\ mLast.self = s) => dirty[s]
                  /\ pLast'.initCalls = (IF valid /\ dirty[s] THEN 1 ELSE 0)
                  /\ (pLast'.initCalls = 1 /\ pLast'.initRet) =>
                        /\ initialized'[reserved'[s]]
                        /\ ~dirty'[s]
                        /\ pLast'.drew
                  /\ pLast'.drew => ~dirty'[s]
        /\ (alive[s] /\ kind[s] = "Pipeline" /\ ~dirty[s] /\ alive'[s]) => ~dirty'[s]
      ]_vars

\* a render() after the one that initialized the pipeline has drawn without
\* calling init()
C20_Witness ==
    /\ mLast.op = "render"
    /\ pLast.op = "render"
    /\ pLast.drew
    /\ ~pLast.wasDirty
    /\ pLast.initCalls = 0
    /\ initialized[reserved[pLast.self]]

\* the object in s is registered as initialized
RegisteredInitialized(s) == reserved[s] # Null /\ initialized[reserved[s]]

\* the object in s is not registered as initialized
NotRegisteredInitialized(s) == ~RegisteredInitialized(s)

\* C24: forceRelease() runs to its end; it calls free() once on every
\* registry entry that is initialized, in registry order, skips none, and
\* leaves exactly the other entries in the registry.
C24_ForceReleaseFreesEachOnce ==
    [][ForceRelease =>
            /\ ~crashed'
            /\ mLast'.op = "forceRelease"
            /\ mLast'.freed = SelectSeq(allManaged, RegisteredInitialized)
            /\ allManaged' = SelectSeq(allManaged, NotRegisteredInitialized)
      ]_vars

\* the pipeline in s has been initialized with success and freed since: only
\* a successful init() clears the dirty flag
FreedPipeline(s) ==
    /\ alive[s]
    /\ kind[s] = "Pipeline"
    /\ ~dirty[s]
    /\ ~initialized[reserved[s]]

\* C25: on a pipeline that was initialized with success and then freed, the
\* next init() - called explicitly or by the lazy-init step of render() -
\* returns true and leaves the pipeline initialized and not dirty (the shader
\* program builds as it did the first time).
C25_PipelineRoundTrip ==
    [][\A s \in Slots :
        /\ (FreedPipeline(s) /\ PipelineInit(s, TRUE)) =>
              /\ mLast'.ret
              /\ initialized'[reserved'[s]]
              /\ ~dirty'[s]
        /\ (FreedPipeline(s) /\ PipelineRender(s, TRUE, TRUE)) =>
              /\ pLast'.ret
              /\ initialized'[reserved'[s]]
              /\ ~dirty'[s]
      ]_vars

\* C28: when the init() that render() calls on a dirty, uninitialized pipeline
\* fails at the build of the program, the pipeline is left uninitialized and
\* unregistered; a render() that follows such a failure and whose build works
\* succeeds.
C28_FailedLazyInitRecoverable ==
    [][\A s \in Slots :
        /\ (/\ alive[s] /\ kind[s] = "Pipeline" /\ dirty[s]
            /\ ~initialized[reserved[s]]
            /\ PipelineRender(s, TRUE, FALSE)) =>
              /\ ~pLast'.ret
              /\ ~initialized'[reserved'[s]]
              /\ Count(allManaged', s) = 0
        /\ (/\ mLast.op = "render" /\ mLast.self = s
            /\ pLast.initCalls = 1 /\ ~pLast.initRet
            /\ PipelineRender(s, TRUE, TRUE)) =>
              /\ pLast'.initCalls = 1
              /\ pLast'.ret
      ]_vars

\* ------------------------------------------------------------------------
\* Node: properties
\* ------------------------------------------------------------------------

ChildrenOf(n) == Range(children[n])

\* the nodes reachable from the nodes of S through at most k children references
RECURSIVE ReachableIn(_, _)
ReachableIn(S, k) ==
    IF k = 0 THEN S ELSE ReachableIn(S \cup UNION { ChildrenOf(m) : m \in S }, k - 1)

\* the nodes reachable from n through one or more children references
Descendants(n) == ReachableIn(ChildrenOf(n), NNodes)

\* the k-th ancestor of n
RECURSIVE ParentIter(_, _)
ParentIter(n, k) == IF k = 0 THEN n ELSE ParentIter(parent[n], k - 1)

\* C6: when a.addChild(b) returns true, b's parent is a, a's children are the
\* old ones followed by b, b occurs once among them, and no other node's parent
\* or children sequence has changed.
C6_AddChildLinksOnce ==
    [][\A a, b \in Nodes :
        (AddChild(a, b) /\ nLast'.ret) =>
            /\ parent'[b] = a
            /\ children'[a] = Append(children[a], b)
            /\ Count(children'[a], b) = 1
            /\ \A n \in Nodes \ {b} : parent'[n] = parent[n]
            /\ \A n \in Nodes \ {a} : children'[n] = children[n]
      ]_vars

\* number of entries of all children sequences that refer to n
Occurrences(n) ==
    Cardinality({ p \in Nodes \X (1 .. MaxChildren) :
                    p[2] <= Len(children[p[1]]) /\ children[p[1]][p[2]] = n })

\* C7: every non-sentinel node occurs at most once in all the children
\* sequences together, and the node holding it is its parent.
C7_AtMostOneParent ==
    \A n \in RealNodes :
        /\ Occurrences(n) <= 1
        /\ \A m \in Nodes : n \in ChildrenOf(m) => parent[n] = m

\* C8: the hierarchy has no cycle: no node is its own descendant and the
\* parent chain of every node ends at the sentinel.
C8_NoCycle ==
    \A n \in RealNodes :
        /\ n \notin Descendants(n)
        /\ \E k \in 0 .. NNodes : ParentIter(n, k) = empty

\* C9: every process() and getWorldMatrix() call returns, having visited no
\* more nodes than the hierarchy has.
C9_TraversalsTerminate ==
    /\ nLast.op = "getWorldMatrix" => (nLast.done /\ nLast.visits <= NNodes)
    /\ lLast.op = "process" => (lLast.done /\ Len(lLast.visited) <= NNodes)

\* the product of the local matrices of n and its ancestors, from the topmost
\* ancestor down to n
RECURSIVE AncestorProduct(_, _)
AncestorProduct(n, fuel) ==
    IF n = empty \/ fuel = 0 THEN <<>>
    ELSE AncestorProduct(parent[n], fuel - 1) \o <<[g |-> n, t |-> FALSE]>>

\* C12: n.getWorldMatrix() (default argument) returns the product of the
\* local matrices of n and all its ancestors in root-to-node order: Mr * Ma * Mb
\* for the chain root -> A -> B.
C12_WorldMatrixRootToNode ==
    [][\A n \in RealNodes :
        (GetWorldMatrix(n, empty) /\ nLast'.done) =>
            nLast'.mat = AncestorProduct(n, NNodes)
      ]_vars

\* getWorldMatrix() has returned the product of a chain of three nodes
C12_Witness ==
    /\ nLast.op = "getWorldMatrix"
    /\ nLast.done
    /\ Len(nLast.mat) = 3
    /\ \A n \in RealNodes : parent[n] # n

\* C16: addChild(child) returns false and changes no parent and no children
\* sequence when child is the sentinel, when child has a non-sentinel parent,
\* and when child is among the receiver's children already (a.addChild(b)
\* repeated without a removeChild).
C16_AddChildFailureChangesNothing ==
    [][\A a, b \in Nodes :
        (AddChild(a, b) /\ (b = empty \/ parent[b] # empty \/ b \in ChildrenOf(a))) =>
            /\ ~nLast'.ret
            /\ parent' = parent
            /\ children' = children
      ]_vars

C18_OutOfRangeReturnsSentinel ==
    [][\A a \in Nodes, id \in 0 .. MaxChildren :
        (id >= Len(children[a]) /\ (GetChild(a, id) \/ RemoveChild(a, id))) =>
            /\ nLast'.node = empty
            /\ parent' = parent
            /\ children' = children
      ]_vars

\* getChild has been refused in a hierarchy in which some node has children
C18_Witness ==
    /\ nLast.op = "getChild"
    /\ nLast.node = empty
    /\ \E a \in RealNodes : Len(children[a]) = MaxChildren

\* root is reached from n by one or more parent references
ProperAncestor(root, n) == \E k \in 1 .. NNodes : ParentIter(n, k) = root

\* the product of the local matrices from root down to n, both included
RECURSIVE ProductFrom(_, _, _)
ProductFrom(root, n, fuel) ==
    IF n = root \/ n = empty \/ fuel = 0 THEN <<[g |-> n, t |-> FALSE]>>
    ELSE ProductFrom(root, parent[n], fuel - 1) \o <<[g |-> n, t |-> FALSE]>>

\* C26: n.getWorldMatrix(root) with root a proper ancestor of n returns the
\* product of the local matrices from root down to n, root's own matrix
\* included, and of no ancestor above root.
C26_WorldMatrixIncludesRoot ==
    [][\A n \in RealNodes, root \in RealNodes :
        (/\ n # root
         /\ ProperAncestor(root, n)
         /\ GetWorldMatrix(n, root)
         /\ nLast'.done) =>
            nLast'.mat = ProductFrom(root, parent[n], NNodes) \o <<[g |-> n, t |-> FALSE]>>
      ]_vars

\* ------------------------------------------------------------------------
\* List: properties
\* ------------------------------------------------------------------------

IsLight(n) == nodeType[n] = "Light"

IsMesh(n) == nodeType[n] = "Mesh"

\* the node references of the render list
References == [i \in DOMAIN renderableElem |-> renderableElem[i].reference]

\* the nodes reachable from root, root included
ReachableFrom(root) == {root} \cup Descendants(root)

\* process(root) has returned true
Processed == lLast.op = "process" /\ lLast.done /\ lLast.ret

\* C1: the first nrOfLights elements reference lights and the others meshes;
\* after reset() and process(root) the list holds one element per light and per
\* mesh reachable from root.
C1_TraversalPartition ==
    /\ nrOfLights <= Len(renderableElem)
    /\ \A i \in DOMAIN renderableElem :
          IF i <= nrOfLights THEN IsLight(References[i]) ELSE IsMesh(References[i])
    /\ (Processed /\ lLast.preLen = 0) =>
          /\ nrOfLights = Cardinality({ n \in ReachableFrom(lLast.root) : IsLight(n) })
          /\ Len(renderableElem) =
                Cardinality({ n \in ReachableFrom(lLast.root) : IsLight(n) \/ IsMesh(n) })

RECURSIVE PreOrder(_, _)
RECURSIVE PreOrderAll(_, _, _)
PreOrder(n, fuel) ==
    IF fuel = 0 THEN <<>> ELSE <<n>> \o PreOrderAll(children[n], 1, fuel - 1)

PreOrderAll(list, i, fuel) ==
    IF i > Len(list) THEN <<>>
    ELSE PreOrder(list[i], fuel) \o PreOrderAll(list, i + 1, fuel)

\* C10: process(root) enters the nodes in depth-first pre-order; the lights it
\* found are at the front of the list in reverse visiting order and the meshes
\* it found are at the back in visiting order.
C10_DepthFirstOrder ==
    Processed =>
        LET lights == SelectSeq(lLast.visited, IsLight)
            meshes == SelectSeq(lLast.visited, IsMesh)
        IN  /\ lLast.visited = PreOrder(lLast.root, NNodes + 1)
            /\ Len(References) = lLast.preLen + Len(lights) + Len(meshes)
            /\ SubSeq(References, 1, Len(lights)) = Reverse(lights)
            /\ SubSeq(References, Len(References) - Len(meshes) + 1, Len(References)) = meshes

\* process() has returned after visiting a root with a subtree holding two
\* lights
C10_Witness ==
    /\ Processed
    /\ Len(lLast.visited) >= 3
    /\ Len(SelectSeq(lLast.visited, IsLight)) >= 2
    /\ children[lLast.root] # <<>>

\* the children paths from root to n: the sequences of nodes that start at root,
\* end at n and go from each node to one of its children
PathsTo(root, n) ==
    { q \in UNION { [1 .. k -> RealNodes] : k \in 1 .. NNodes } :
        /\ q[1] = root
        /\ q[Len(q)] = n
        /\ \A j \in 1 .. Len(q) - 1 : q[j + 1] \in ChildrenOf(q[j]) }

\* the product of the local matrices of the nodes of q, in the order of q
PathProduct(q) == [j \in 1 .. Len(q) |-> [g |-> q[j], t |-> FALSE]]

\* C11: every element that process(root, P) inserts for a node n carries
\* P * M(root) * ... * M(n), the product in root-to-node order of the local
\* matrices along a children path from root to n; the elements that were in
\* the list before keep their matrices.
C11_ElementsCarryWorldMatrix ==
    [][\A root \in Nodes :
        (ProcessFrom(root, PrevMatrix) /\ lLast'.done) =>
            LET newLights == nrOfLights' - nrOfLights
                isNew(i)  == i <= newLights \/ i > newLights + Len(renderableElem)
            IN  /\ SubSeq(renderableElem', newLights + 1, newLights + Len(renderableElem))
                      = renderableElem
                /\ \A i \in DOMAIN renderableElem' :
                      isNew(i) =>
                          renderableElem'[i].matrix \in
                              { PrevMatrix \o PathProduct(q) :
                                  q \in PathsTo(root, renderableElem'[i].reference) }
      ]_vars

\* process(root, P) has inserted an element for a grandchild of root
C11_Witness ==
    /\ Processed
    /\ \E i \in DOMAIN renderableElem :
          /\ Len(renderableElem[i].matrix) = 4
          /\ renderableElem[i].matrix[1] = PrevMatrix[1]
          /\ renderableElem[i].matrix[2].g = lLast.root

\* C13: render(cameraMatrix, pass) calls render on the elements of the range
\* of its pass - lights: [0, nrOfLights), meshes: [nrOfLights, size), all:
\* [0, size) - once each in increasing index order, on no other element, and
\* leaves the list as it is.
C13_RenderDispatchesRange ==
    [][\A pass \in Passes :
        Render(CameraMatrix, pass) =>
            LET lo    == IF pass = "meshes" THEN nrOfLights ELSE 0
                hi    == IF pass = "lights" THEN nrOfLights ELSE Len(renderableElem)
                calls == lLast'.calls
            IN  /\ Len(calls) = hi - lo
                /\ \A k \in DOMAIN calls :
                      /\ calls[k].index = lo + k - 1
                      /\ calls[k].reference = renderableElem[lo + k].reference
                /\ renderableElem' = renderableElem
                /\ nrOfLights' = nrOfLights
      ]_vars

\* a pass has rendered two meshes and skipped the light in front of them
C13_Witness ==
    /\ lLast.op = "render"
    /\ Len(lLast.calls) >= 2
    /\ lLast.calls[1].index >= 1
    /\ Len(lLast.calls) < Len(renderableElem)

\* C14: the objMatrix handed to each element rendered is
\* cameraMatrix * element.worldMatrix.
C14_ObjMatrixIsCameraTimesWorld ==
    lLast.op = "render" =>
        \A k \in DOMAIN lLast.calls :
            lLast.calls[k].objMatrix =
                lLast.calls[k].camMatrix \o renderableElem[lLast.calls[k].index + 1].matrix

\* ------------------------------------------------------------------------
\* Object: properties
\* ------------------------------------------------------------------------

\* the storages that hold an object with its Reserved block (not a shell)
LiveObjects == { s \in ObjStorages : objAlive[s] /\ objReserved[s] # ObjNull }

\* C21: the ids of all objects ever created are pairwise distinct and strictly
\* increasing in creation order (so the id of a destroyed object is never given
\* out again); the id an object was constructed with never changes, and the
\* object moved to a new storage answers getId() there with the id it had.
C21_IdsDistinctIncreasingStable ==
    /\ [](\A i, j \in DOMAIN objBlocks : i < j => objBlocks[i].id < objBlocks[j].id)
    /\ [][/\ \A h \in DOMAIN objBlocks :
                h \in DOMAIN objBlocks' /\ objBlocks'[h].id = objBlocks[h].id
          /\ \A a, b \in ObjStorages :
                (ObjectMove(a, b) /\ objReserved[a] # ObjNull) =>
                    /\ objReserved'[b] # ObjNull
                    /\ objBlocks'[objReserved'[b]].id = getId(a)
         ]_vars

\* an object has just been moved to a new storage, after an older object was
\* destroyed and a younger one created
C21_Witness ==
    /\ oLast.op = "move"
    /\ ~oLast.wasShell
    /\ \E i, j \in DOMAIN objBlocks :
          i < j /\ ~objBlocks[i].live /\ objBlocks[j].live /\ objReserved[oLast.self] = j

\* C22: getNrOfObjects() is the number of objects constructed and not yet
\* destroyed (zero once all are destroyed): a construction adds one, the
\* destruction of an object subtracts one, a move construction and the
\* destruction of a moved-from shell change nothing.
C22_CounterCountsLiveObjects ==
    /\ [](getNrOfObjects = Cardinality(LiveObjects))
    /\ [][\A a, b \in ObjStorages :
             /\ ObjectConstruct(a) => counter' = counter + 1
             /\ ObjectMove(a, b) => counter' = counter
             /\ (ObjectDestroy(a) /\ objReserved[a] = ObjNull) => counter' = counter
             /\ (ObjectDestroy(a) /\ objReserved[a] # ObjNull) => counter' = counter - 1
         ]_vars

\* the shell of a moved object has just been destroyed as the last of the
\* objects created, and the counter is back to zero
C22_Witness ==
    /\ oLast.op = "destroy"
    /\ oLast.wasShell
    /\ Len(objBlocks) >= 2
    /\ \A s \in ObjStorages : ~objAlive[s]
    /\ getNrOfObjects = 0

\* ------------------------------------------------------------------------
\* Container: properties
\* ------------------------------------------------------------------------

\* the content of the container in the documented search order
AllInSearchOrder == allMaterials \o allTextures \o allMeshes \o allLights \o allNodes

\* the first object of the search order with the name; the sentinel if there
\* is none or the name is empty
FirstNamed(name) ==
    LET hits == { i \in DOMAIN AllInSearchOrder : cName[AllInSearchOrder[i]] = name }
    IN  IF name = "" \/ hits = {} THEN emptyObject ELSE Cell(AllInSearchOrder[Min(hits)])

\* the first object of the search order with the id; the sentinel if there is
\* none or the id is zero
FirstWithId(id) ==
    LET hits == { i \in DOMAIN AllInSearchOrder : ContainerId(AllInSearchOrder[i]) = id }
    IN  IF id = 0 \/ hits = {} THEN emptyObject ELSE Cell(AllInSearchOrder[Min(hits)])

\* C23: find(name) and find(id) return the first match of materials, textures,
\* meshes, lights, nodes (each in insertion order), the sentinel Object::empty
\* if nothing matches or the name is empty / the id zero, and leave the
\* container as it was.
C23_FindFirstMatchInPriorityOrder ==
    [][/\ \A name \in QueryNames :
             FindName(name) =>
                 /\ cLast'.ret = FirstNamed(name)
                 /\ UNCHANGED <<allMaterials, allTextures, allMeshes, allLights, allNodes, cName>>
       /\ \A id \in QueryIds :
             FindId(id) =>
                 /\ cLast'.ret = FirstWithId(id)
                 /\ UNCHANGED <<allMaterials, allTextures, allMeshes, allLights, allNodes, cName>>
      ]_vars

\* find(name) has returned a material although a plain node of the container
\* has the same name
C23_Witness ==
    /\ cLast.op = "findName"
    /\ \E i \in DOMAIN allNodes, j \in DOMAIN allMaterials :
          /\ cName[allNodes[i]] = cLast.name
          /\ cName[allMaterials[j]] = cLast.name
          /\ cLast.ret = Cell(allMaterials[j])

\* C27: when add() moves a node that has a parent or children into the
\* container, the node is found in its new storage, the children sequence of
\* its parent refers to that storage and so does the parent of its children.
C27_LinksSurviveContainerAdd ==
    [][\A o \in RealNodes, name \in Names :
          (ContainerAdd(o, name) /\ (parent[o] # empty \/ children[o] # <<>>)) =>
              /\ findId(allMaterials', allTextures', allMeshes', allLights', allNodes',
                        ContainerId(o)) = Cell(o)
              /\ \A v \in RealNodes : parent[v] = o => parent'[v] = Cell(o)
              /\ \A q \in RealNodes :
                    Count(children[q], o) > 0 =>
                        Count(children'[q], Cell(o)) > 0 /\ Count(children'[q], o) = 0
      ]_vars

\* ------------------------------------------------------------------------
\* Fbo: properties
\* ------------------------------------------------------------------------

IsDepthBuffer(a) == a.type = "depth_buffer"

\* the render buffer names held by the depth buffers of an attachment vector
DepthBufferData(att) ==
    LET d == SelectSeq(att, IsDepthBuffer) IN [i \in 1 .. Len(d) |-> d[i].data]

\* two sequences hold the same elements the same number of times
SameElements(p, q) == \A x \in Range(p) \cup Range(q) : Count(p, x) = Count(q, x)

\* C29: free() on an initialized Fbo leaves it without attachments, after
\* visiting each attachment once and releasing each depth render buffer once.
C29_FreeReleasesEveryAttachment ==
    [][\A s \in Slots :
          (/\ alive[s] /\ kind[s] = "Fbo" /\ reserved[s] # Null /\ initialized[reserved[s]]
           /\ FboFree(s)) =>
              /\ attachment'[s] = <<>>
              /\ SameElements(fLast'.visited, attachment[s])
              /\ SameElements(fLast'.released, DepthBufferData(attachment[s]))
      ]_vars

\* ------------------------------------------------------------------------
\* Node::getTreeAsString: properties
\* ------------------------------------------------------------------------

\* the lines of the hierarchy below n in depth-first pre-order, each with the
\* depth of its node below the start node
RECURSIVE PreOrderLines(_, _, _)
RECURSIVE PreOrderLinesAll(_, _, _, _)
PreOrderLines(n, depth, fuel) ==
    IF fuel = 0 THEN <<>>
    ELSE <<[indent |-> depth, name |-> n]>>
             \o PreOrderLinesAll(children[n], 1, depth + 1, fuel - 1)

PreOrderLinesAll(list, i, depth, fuel) ==
    IF i > Len(list) THEN <<>>
    ELSE PreOrderLines(list[i], depth, fuel) \o PreOrderLinesAll(list, i + 1, depth, fuel)

\* C30: an outermost getTreeAsString() call returns one line per node of the
\* subtree, in depth-first pre-order and indented by depth, and leaves the
\* shared depth counter at 0 (so that the next call starts afresh and returns
\* the same text for the same subtree).
C30_TreeDumpOneLinePerNode ==
    [][\A n \in Nodes :
          GetTreeAsString(n) =>
              /\ tLast'.done
              /\ tLast'.ret = PreOrderLines(n, 0, NNodes + 1)
              /\ Len(tLast'.ret) = Cardinality(ReachableFrom(n))
              /\ treeCalls' = 0
      ]_vars

====
